---- MODULE Spec2Model ----
(***************************************************************************)
(* Model of mcp-devops-hub: the four service clients (Jira, GitHub,        *)
(* Jenkins, Groq), the lifecycle manager create_api_clients, the sampling  *)
(* callback handle_sampling_message and the resource/tool handlers of      *)
(* server.py.                                                              *)
(***************************************************************************)
EXTENDS Integers, Sequences, FiniteSets, TLC

VARIABLES
    config,      \* settings: per service "absent" | "valid" | "rejected"
    handle,      \* per service: the client object's _client / client field
    closeCalls,  \* per service: number of close() calls made on the client
    sdkCloses,   \* per service: number of close/aclose calls made on the SDK handle
    lastOp,      \* result of the last client-level operation
    lpc,         \* create_api_clients: position in the context manager
    results,     \* create_api_clients: outcome of each init task
    bundle,      \* the Clients dataclass instance bound to `clients`
    teardowns,   \* number of times the finally block has been entered
    exitKind,    \* how the serving scope was left
    closeTasks,  \* close tasks created by the finally block, not yet finished
    closeErrs,   \* services whose close task finished with an exception
    hRes,        \* result of the last resource/tool handler invocation
    sreq         \* sampling requests: per request id a record

vars == <<config, handle, closeCalls, sdkCloses, lastOp, lpc, results, bundle,
          teardowns, exitKind, closeTasks, closeErrs, hRes, sreq>>

---------------------------------------------------------------------------
(* Bounds *)
MaxCloseCalls == 2     \* close() calls made on one client in SpecClient
MaxReq == 2            \* sampling requests in flight in SpecSampling

---------------------------------------------------------------------------
(* Services and configuration *)

\* init_tasks keys, in insertion order (clients/__init__.py:33-39)
ServiceNames == <<"jira", "github", "jenkins", "groq">>
ServiceSet == {ServiceNames[i] : i \in 1..Len(ServiceNames)}
N == Len(ServiceNames)

\* "absent": a required settings field is None;
\* "valid": all fields present and the remote accepts them;
\* "rejected": all fields present but the remote rejects authentication or
\* the connection when it is contacted.
ConfigKinds == {"absent", "valid", "rejected"}

HTTP_NOT_FOUND == 404

\* What the remote does with one request.
RemoteOutcome(kind, code) == [kind |-> kind, code |-> code]
RemoteOk == RemoteOutcome("ok", 200)
RemoteNotFound == RemoteOutcome("status", HTTP_NOT_FOUND)
RemoteUnreachable == RemoteOutcome("unreachable", 0)
RemoteFailures == {RemoteOutcome("status", c) : c \in {401, 429, 500}}
RemoteOutcomes == {RemoteOk, RemoteNotFound, RemoteUnreachable} \cup RemoteFailures

---------------------------------------------------------------------------
(* Client constructors: the value is what __init__ leaves in the client   *)
(* field ("none" = disabled, "set" = SDK handle) or the exception raised.  *)

Built(h) == [raised |-> FALSE, exc |-> "", client |-> h]
Raises(e) == [raised |-> TRUE, exc |-> e, client |-> "none"]

JiraClientInit(cfg) ==
    IF cfg = "absent" THEN Built("none")
    ELSE IF cfg = "rejected" THEN Built("none")   \* JIRAError / Exception swallowed
    ELSE Built("set")

GitHubClientInit_Propagate(cfg) ==
    IF cfg = "absent" THEN Built("none")
    ELSE IF cfg = "rejected" THEN Raises("GithubException")
    ELSE Built("set")

GitHubClientInit(cfg) ==
    IF cfg = "absent" THEN Built("none")
    ELSE IF cfg = "rejected" THEN Built("none")   \* GithubException / Exception swallowed
    ELSE Built("set")

JenkinsClientInit_IgnoresAbsent(cfg) == Built("set")

\* httpx.AsyncClient(...) is built without contacting the remote.
JenkinsClientInit(cfg) ==
    IF cfg = "absent" THEN Built("none")
    ELSE Built("set")

\* settings.groq_api_key.get_secret_value() on None raises AttributeError;
\* groq.Groq(...) is built without contacting the remote.
GroqClientInit(cfg) ==
    IF cfg = "absent" THEN Raises("AttributeError")
    ELSE Built("set")

ClientInit(s, cfg) ==
    CASE s = "jira" -> JiraClientInit(cfg)
      [] s = "github" -> GitHubClientInit(cfg)
      [] s = "jenkins" -> JenkinsClientInit(cfg)
      [] s = "groq" -> GroqClientInit(cfg)

---------------------------------------------------------------------------
(* Client operations.  h is the client field ("none" | "set"), r the       *)
(* remote's outcome.  A result is a value, None, an empty list or a raise. *)

Value(v) == [kind |-> "value", exc |-> "", val |-> v, code |-> 0]
None == [kind |-> "none", exc |-> "", val |-> "", code |-> 0]
EmptyList == [kind |-> "empty", exc |-> "", val |-> "", code |-> 0]
Raise(e) == [kind |-> "raise", exc |-> e, val |-> "", code |-> 0]
RaiseStatus(e, c) == [kind |-> "raise", exc |-> e, val |-> "", code |-> c]

\* The exception the SDK of service s raises when the remote cannot be reached.
SdkTransportError(s) ==
    CASE s = "jira" -> "requests.ConnectionError"
      [] s = "github" -> "requests.ConnectionError"
      [] s = "jenkins" -> "httpx.RequestError"
      [] s = "groq" -> "groq.APIConnectionError"

\* _run_sync of GitHubClient and JiraClient: one executor call of the SDK function.
RunSync(s, h, r, statusExc, v) ==
    IF h # "set" THEN Raise("ConnectionError")
    ELSE IF r.kind = "ok" THEN Value(v)
    ELSE IF r.kind = "status" THEN RaiseStatus(statusExc, r.code)
    ELSE Raise(SdkTransportError(s))

GitHubGetRepo(h, r) ==
    IF h # "set" THEN None
    ELSE LET res == RunSync("github", h, r, "GithubException", "repo")
         IN IF res.kind = "raise" /\ res.exc = "GithubException" /\ res.code = HTTP_NOT_FOUND
            THEN None
            ELSE res

GitHubGetContent_Reraise404(h, r1, r2, v) ==
    LET repo == GitHubGetRepo(h, r1)
    IN IF repo.kind = "raise" THEN repo
       ELSE IF repo.kind # "value" THEN None
       ELSE RunSync("github", h, r2, "GithubException", v)

\* r1 answers get_repo, r2 answers repo.get_contents; v is "file" or "dir".
GitHubGetContent(h, r1, r2, v) ==
    LET repo == GitHubGetRepo(h, r1)
    IN IF repo.kind = "raise" THEN repo
       ELSE IF repo.kind # "value" THEN None
       ELSE LET res == RunSync("github", h, r2, "GithubException", v)
            IN IF res.kind = "raise" /\ res.exc = "GithubException" /\ res.code = HTTP_NOT_FOUND
               THEN None
               ELSE res

JiraGetSprintTasks(h, r, v) ==
    IF h # "set" THEN EmptyList
    ELSE LET res == RunSync("jira", h, r, "JIRAError", v)
         IN res

JiraGetSprint_Reraise404(h, r) ==
    IF h # "set" THEN None
    ELSE RunSync("jira", h, r, "JIRAError", "sprint")

JiraGetSprint(h, r) ==
    IF h # "set" THEN None
    ELSE LET res == RunSync("jira", h, r, "JIRAError", "sprint")
         IN IF res.kind = "raise" /\ res.exc = "JIRAError" /\ res.code = HTTP_NOT_FOUND
            THEN None
            ELSE res

JiraGetCompletedSprints_NoGuard(h, r) ==
    RunSync("jira", h, r, "JIRAError", "sprints")

JiraGetCompletedSprints(h, r) ==
    IF h # "set" THEN EmptyList
    ELSE LET res == RunSync("jira", h, r, "JIRAError", "sprints")
         IN res

JenkinsRequest_SwallowRequestError(h, r, v) ==
    IF h # "set" THEN Raise("ConnectionError")
    ELSE IF r.kind = "ok" THEN Value(v)
    ELSE None

JenkinsRequest(h, r, v) ==
    IF h # "set" THEN Raise("ConnectionError")
    ELSE IF r.kind = "ok" THEN Value(v)
    ELSE IF r.kind = "status" THEN None          \* httpx.HTTPStatusError: return None
    ELSE Raise("ConnectionError")                \* httpx.RequestError wrapped

JenkinsGetBuildInfo(h, r) == JenkinsRequest(h, r, "build")

JenkinsGetJobInfo(h, r) == JenkinsRequest(h, r, "job")

\* The texts a completion can consist of.
Texts == {"insight", "summary"}

\* client.chat.completions.create: logged and re-raised on any failure.
GroqGenerateCompletion(r, text) ==
    IF r.kind = "ok" THEN Value(text)
    ELSE IF r.kind = "status" THEN RaiseStatus("groq.APIStatusError", r.code)
    ELSE Raise(SdkTransportError("groq"))

GroqAnalyzeCode_SwallowsFailure(r, text) ==
    LET c == GroqGenerateCompletion(r, text)
    IN IF c.kind = "raise" THEN Value("") ELSE c

\* analyze_code: one generate_completion call, its result returned as is.
GroqAnalyzeCode(r, text) == GroqGenerateCompletion(r, text)

\* generate_documentation: likewise, with another system prompt.
GroqGenerateDocumentation(r, text) == GroqGenerateCompletion(r, text)

---------------------------------------------------------------------------
(* What an operation costs: the number of times it hands a function to the *)
(* executor (loop.run_in_executor in _run_sync) and the number of requests *)
(* it sends to the remote.                                                 *)

\* _run_sync: raises before reaching run_in_executor when there is no client.
RunSyncOffloads(h) == IF h # "set" THEN 0 ELSE 1

GitHubGetRepoOffloads_RetryOnFailure(h, r) ==
    IF h # "set" THEN 0
    ELSE IF r.kind = "ok" THEN RunSyncOffloads(h) ELSE 2 * RunSyncOffloads(h)

\* get_repo: one _run_sync, whatever the remote answers.
GitHubGetRepoOffloads(h, r) ==
    IF h # "set" THEN 0 ELSE RunSyncOffloads(h)

\* get_content: get_repo, then one more _run_sync if a repository came back.
GitHubGetContentOffloads(h, r1, r2) ==
    GitHubGetRepoOffloads(h, r1)
        + (IF GitHubGetRepo(h, r1).kind = "value" THEN RunSyncOffloads(h) ELSE 0)

\* get_sprint_tasks, get_sprint, get_completed_sprints: one _run_sync each.
JiraOffloads(h) == IF h # "set" THEN 0 ELSE RunSyncOffloads(h)

Offloads(op, h, r1, r2) ==
    CASE op \in {"get_sprint_tasks", "get_sprint", "get_completed_sprints"} -> JiraOffloads(h)
      [] op = "get_repo" -> GitHubGetRepoOffloads(h, r1)
      [] op = "get_content" -> GitHubGetContentOffloads(h, r1, r2)
      [] OTHER -> 0

\* Each offloaded function is one SDK request; _request sends one request
\* unless the client is disabled; generate_completion sends one.
RemoteAttempts(op, h, r1, r2) ==
    CASE op \in {"get_build_info", "get_job_info"} -> IF h # "set" THEN 0 ELSE 1
      [] op \in {"generate_completion", "analyze_code", "generate_documentation"} -> 1
      [] OTHER -> Offloads(op, h, r1, r2)

ConstructorAttempts_NoProbe(s, cfg) == 0

\* Requests a constructor sends: JIRA(...) and Github(...).get_user() contact
\* the remote, httpx.AsyncClient(...) and groq.Groq(...) do not.
ConstructorAttempts(s, cfg) ==
    IF s \in {"jira", "github"} /\ cfg # "absent" THEN 1 ELSE 0

---------------------------------------------------------------------------
(* close() of each client.  sdk is what the SDK handle's own close does    *)
(* ("ok" | "raises").  The effect is the number of close calls made on the *)
(* SDK handle and whether close() itself raises.  No close() clears the    *)
(* client field.                                                           *)

CloseEffect(n, raised) == [sdkCalls |-> n, raised |-> raised]

\* _run_sync(self._client.close) inside try; AttributeError / Exception swallowed.
JiraClose(h, sdk) ==
    IF h = "set" THEN CloseEffect(1, FALSE) ELSE CloseEffect(0, FALSE)

\* logs and passes
GitHubClose(h, sdk) == CloseEffect(0, FALSE)

\* await self._client.aclose(), not guarded by try
JenkinsClose(h, sdk) ==
    IF h = "set" THEN CloseEffect(1, sdk = "raises") ELSE CloseEffect(0, FALSE)

\* The clients that define close(); GroqClient has none.
Closable == {"jira", "github", "jenkins"}

ClientClose(s, h, sdk) ==
    CASE s = "jira" -> JiraClose(h, sdk)
      [] s = "github" -> GitHubClose(h, sdk)
      [] s = "jenkins" -> JenkinsClose(h, sdk)

SdkCloseOutcomes == {"ok", "raises"}

---------------------------------------------------------------------------
(* Initial values shared by the specifications *)

NoOp == [svc |-> "", op |-> "none", r |-> RemoteOk, r2 |-> RemoteOk, res |-> None, v |-> "",
         offloads |-> 0, attempts |-> 0]
NoHandler == [handler |-> "none"]

InitCommon ==
    /\ config \in [ServiceSet -> ConfigKinds]
    /\ handle = [s \in ServiceSet |-> "unbuilt"]
    /\ closeCalls = [s \in ServiceSet |-> 0]
    /\ sdkCloses = [s \in ServiceSet |-> 0]
    /\ lastOp = NoOp
    /\ lpc = "start"
    /\ results = [s \in ServiceSet |-> [kind |-> "pending", cls |-> "", client |-> "none"]]
    /\ bundle = [s \in ServiceSet |-> "None"]
    /\ teardowns = 0
    /\ exitKind = "none"
    /\ closeTasks = {}
    /\ closeErrs = {}
    /\ hRes = NoHandler
    /\ sreq = [i \in 1..MaxReq |-> [pc |-> "idle"]]

lifeVars == <<lpc, results, bundle, teardowns, exitKind, closeTasks, closeErrs>>

---------------------------------------------------------------------------
(* SpecClient: one client object is constructed from the settings and its  *)
(* operations are called against a remote that answers in every way.       *)

\* The outcomes a remote can give to a client built from configuration cfg.
RemoteFor(cfg) ==
    IF cfg = "rejected" THEN RemoteFailures \cup {RemoteUnreachable} ELSE RemoteOutcomes

ContentKinds == {"file", "dir"}

\* The operations of each client and their results.
ClientOps(s) ==
    CASE s = "jira" -> {"get_sprint_tasks", "get_sprint", "get_completed_sprints"}
      [] s = "github" -> {"get_repo", "get_content"}
      [] s = "jenkins" -> {"get_build_info", "get_job_info"}
      [] s = "groq" -> {"generate_completion", "analyze_code", "generate_documentation"}

ClientCall(op, h, r1, r2, v) ==
    CASE op = "get_sprint_tasks" -> JiraGetSprintTasks(h, r1, "issues")
      [] op = "get_sprint" -> JiraGetSprint(h, r1)
      [] op = "get_completed_sprints" -> JiraGetCompletedSprints(h, r1)
      [] op = "get_repo" -> GitHubGetRepo(h, r1)
      [] op = "get_content" -> GitHubGetContent(h, r1, r2, v)
      [] op = "get_build_info" -> JenkinsGetBuildInfo(h, r1)
      [] op = "get_job_info" -> JenkinsGetJobInfo(h, r1)
      [] op = "generate_completion" -> GroqGenerateCompletion(r1, v)
      [] op = "analyze_code" -> GroqAnalyzeCode(r1, v)
      [] op = "generate_documentation" -> GroqGenerateDocumentation(r1, v)

\* SomeClient(): run the constructor of service s.
CConstruct(s) ==
    /\ \A t \in ServiceSet : handle[t] = "unbuilt"
    /\ LET c == ClientInit(s, config[s])
       IN /\ handle' = [handle EXCEPT ![s] = IF c.raised THEN "raised" ELSE c.client]
          /\ lastOp' = [svc |-> s, op |-> "init", r |-> RemoteOk, r2 |-> RemoteOk,
                        res |-> IF c.raised THEN Raise(c.exc) ELSE Value(c.client),
                        v |-> "",
                        offloads |-> 0,
                        attempts |-> ConstructorAttempts(s, config[s])]
    /\ UNCHANGED <<config, closeCalls, sdkCloses, hRes, sreq>>
    /\ UNCHANGED lifeVars

\* One query operation of the client of service s.
COperation(s) ==
    /\ handle[s] \in {"none", "set"}
    /\ \E op \in ClientOps(s), r1 \in RemoteFor(config[s]) :
       \E r2 \in IF op = "get_content" THEN RemoteFor(config[s]) ELSE {RemoteOk},
          v \in IF op = "get_content" THEN ContentKinds
                ELSE IF s = "groq" THEN Texts ELSE {"file"} :
          lastOp' = [svc |-> s, op |-> op, r |-> r1, r2 |-> r2,
                     res |-> ClientCall(op, handle[s], r1, r2, v), v |-> v,
                     offloads |-> Offloads(op, handle[s], r1, r2),
                     attempts |-> RemoteAttempts(op, handle[s], r1, r2)]
    /\ UNCHANGED <<config, handle, closeCalls, sdkCloses, hRes, sreq>>
    /\ UNCHANGED lifeVars

\* close() of the client of service s.
CClose(s) ==
    /\ s \in Closable
    /\ handle[s] \in {"none", "set"}
    /\ closeCalls[s] < MaxCloseCalls
    /\ \E sdk \in SdkCloseOutcomes :
          LET e == ClientClose(s, handle[s], sdk)
          IN /\ closeCalls' = [closeCalls EXCEPT ![s] = @ + 1]
             /\ sdkCloses' = [sdkCloses EXCEPT ![s] = @ + e.sdkCalls]
             /\ lastOp' = [svc |-> s, op |-> "close", r |-> RemoteOk, r2 |-> RemoteOk,
                           res |-> IF e.raised THEN Raise("SdkCloseError") ELSE None,
                           v |-> "",
                           offloads |-> 0,
                           attempts |-> 0]
    /\ UNCHANGED <<config, handle, hRes, sreq>>
    /\ UNCHANGED lifeVars

NextClient ==
    \/ \E s \in ServiceSet : CConstruct(s)
    \/ \E s \in ServiceSet : COperation(s)
    \/ \E s \in ServiceSet : CClose(s)

SpecClient == InitCommon /\ [][NextClient]_vars

---------------------------------------------------------------------------
(* create_api_clients (clients/__init__.py) and app_lifespan (server.py).  *)
(* lpc: "start" -> "gather" (await asyncio.gather of the init tasks) ->    *)
(* "serving" (suspended at yield) -> "closing" (finally: await gather of   *)
(* the close tasks) -> "done".                                             *)

Pending == [kind |-> "pending", cls |-> "", client |-> "none"]
TaskExc(e) == [kind |-> "exc", cls |-> e, client |-> "none"]
TaskClient(s, h) == [kind |-> "client", cls |-> s, client |-> h]

\* asyncio.to_thread(SomeClient): the result of one init task.  offload is
\* whether the executor could run the constructor at all.
InitTaskResult(s, cfg, offload) ==
    IF offload = "fails" THEN TaskExc("RuntimeError")
    ELSE LET c == ClientInit(s, cfg)
         IN IF c.raised THEN TaskExc(c.exc) ELSE TaskClient(s, c.client)

OffloadOutcomes == {"ok", "fails"}

\* client_map: the class expected for each name
ClientMap(name) == name

IndexOf_Reversed(name) == CHOOSE i \in 1..N : ServiceNames[N + 1 - i] = name

IndexOf(name) == CHOOSE i \in 1..N : ServiceNames[i] = name

\* The loop over enumerate(init_tasks.keys()) followed by Clients(**initialized_clients):
\* res is the list gather returned, in task order.
AssignSlots_AbortOnFailure(res) ==
    [name \in ServiceSet |->
        IF \E i \in 1..N : res[i].kind = "exc" THEN "None" ELSE "client"]

AssignSlots(res) ==
    [name \in ServiceSet |->
        LET result == res[IndexOf(name)]
        IN IF result.kind = "exc" THEN "None"
           ELSE IF result.cls = ClientMap(name) THEN "client"
           ELSE "None"]

\* The close tasks the finally block creates for a Clients instance b.
CloseTasksOf(b) == {s \in {"jira", "github", "jenkins"} : b[s] # "None"}

\* Entering the finally block with `clients` bound to b.
Finally(b, kind) ==
    /\ teardowns' = teardowns + 1
    /\ exitKind' = kind
    /\ closeTasks' = CloseTasksOf(b)
    /\ closeErrs' = {}
    /\ lpc' = IF CloseTasksOf(b) = {} THEN "done" ELSE "closing"

\* Lines 29-39: Clients() and the four init tasks are created.
CreateTasks ==
    /\ lpc = "start"
    /\ lpc' = "gather"
    /\ UNCHANGED <<config, handle, closeCalls, sdkCloses, lastOp, results, bundle,
                   teardowns, exitKind, closeTasks, closeErrs, hRes, sreq>>

\* One init task finishes in its thread.
InitTask(s) ==
    /\ lpc = "gather"
    /\ results[s] = Pending
    /\ \E offload \in OffloadOutcomes :
          LET r == InitTaskResult(s, config[s], offload)
          IN /\ results' = [results EXCEPT ![s] = r]
             /\ handle' = [handle EXCEPT ![s] = IF r.kind = "client" THEN r.client ELSE "raised"]
    /\ UNCHANGED <<config, closeCalls, sdkCloses, lastOp, lpc, bundle,
                   teardowns, exitKind, closeTasks, closeErrs, hRes, sreq>>

\* Lines 41-63: gather returns, the slots are assigned, the bundle is yielded.
Publish ==
    /\ lpc = "gather"
    /\ \A s \in ServiceSet : results[s] # Pending
    /\ bundle' = AssignSlots([i \in 1..N |-> results[ServiceNames[i]]])
    /\ lpc' = "serving"
    /\ UNCHANGED <<config, handle, closeCalls, sdkCloses, lastOp, results,
                   teardowns, exitKind, closeTasks, closeErrs, hRes, sreq>>

\* The await of gather is cancelled: CancelledError is not an Exception, so
\* control goes to finally with `clients` still the empty Clients().
CancelStartup ==
    /\ lpc = "gather"
    /\ Finally(bundle, "cancelled")
    /\ UNCHANGED <<config, handle, closeCalls, sdkCloses, lastOp, results, bundle, hRes, sreq>>

\* The body of `async with create_api_clients()` ends without an exception.
ServingReturns ==
    /\ lpc = "serving"
    /\ Finally(bundle, "normal")
    /\ UNCHANGED <<config, handle, closeCalls, sdkCloses, lastOp, results, bundle, hRes, sreq>>

ServingRaises_NoFinally ==
    /\ lpc = "serving"
    /\ lpc' = "done"
    /\ exitKind' = "exception"
    /\ UNCHANGED <<config, handle, closeCalls, sdkCloses, lastOp, results, bundle,
                   teardowns, closeTasks, closeErrs, hRes, sreq>>

\* The body raises: the exception is thrown into the generator at yield.
ServingRaises ==
    /\ lpc = "serving"
    /\ Finally(bundle, "exception")
    /\ UNCHANGED <<config, handle, closeCalls, sdkCloses, lastOp, results, bundle, hRes, sreq>>

CloseTask_AbortOnRaise(s) ==
    /\ lpc = "closing"
    /\ s \in closeTasks
    /\ \E sdk \in SdkCloseOutcomes :
          LET e == ClientClose(s, handle[s], sdk)
          IN /\ closeCalls' = [closeCalls EXCEPT ![s] = @ + 1]
             /\ sdkCloses' = [sdkCloses EXCEPT ![s] = @ + e.sdkCalls]
             /\ closeErrs' = IF e.raised THEN closeErrs \cup {s} ELSE closeErrs
             /\ closeTasks' = IF e.raised THEN {} ELSE closeTasks \ {s}
    /\ UNCHANGED <<config, handle, lastOp, lpc, results, bundle, teardowns, exitKind, hRes, sreq>>

\* One close task runs clients.<s>.close().
CloseTask(s) ==
    /\ lpc = "closing"
    /\ s \in closeTasks
    /\ \E sdk \in SdkCloseOutcomes :
          LET e == ClientClose(s, handle[s], sdk)
          IN /\ closeCalls' = [closeCalls EXCEPT ![s] = @ + 1]
             /\ sdkCloses' = [sdkCloses EXCEPT ![s] = @ + e.sdkCalls]
             /\ closeErrs' = IF e.raised THEN closeErrs \cup {s} ELSE closeErrs
    /\ closeTasks' = closeTasks \ {s}
    /\ UNCHANGED <<config, handle, lastOp, lpc, results, bundle, teardowns, exitKind, hRes, sreq>>

\* gather(*close_tasks, return_exceptions=True) returns; the generator ends.
CloseGather ==
    /\ lpc = "closing"
    /\ closeTasks = {}
    /\ lpc' = "done"
    /\ UNCHANGED <<config, handle, closeCalls, sdkCloses, lastOp, results, bundle,
                   teardowns, exitKind, closeTasks, closeErrs, hRes, sreq>>

Init == InitCommon

Next ==
    \/ CreateTasks
    \/ \E s \in ServiceSet : InitTask(s)
    \/ Publish
    \/ CancelStartup
    \/ ServingReturns
    \/ ServingRaises
    \/ \E s \in ServiceSet : CloseTask(s)
    \/ CloseGather

Spec == Init /\ [][Next]_vars

---------------------------------------------------------------------------
(* Properties of the lifecycle manager (Spec) *)

Failed == {s \in ServiceSet : results[s].kind = "exc"}
NonNone == {s \in ServiceSet : bundle[s] # "None"}
ClosedOnce == {s \in ServiceSet : closeCalls[s] = 1}
Published == lpc \in {"serving", "closing"} \/ (lpc = "done" /\ exitKind # "cancelled")

\* C1 (as claimed): with k < N failed constructions the bundle is published
\* with exactly N-k non-None entries, and shutdown calls close() on exactly
\* those N-k entries and on no other.
C1_CloseOnEveryNonNoneEntry ==
    (Published /\ Cardinality(Failed) < N) =>
        /\ Cardinality(NonNone) = N - Cardinality(Failed)
        /\ lpc = "done" => \A s \in ServiceSet :
                              closeCalls[s] = IF s \in NonNone THEN 1 ELSE 0

\* C1 (amended): with k < N failed constructions the bundle is published
\* with exactly N-k non-None entries (the slots of the services that did not
\* fail), and shutdown calls close() once on exactly the non-None entries
\* among jira, github and jenkins; close() is never called on the groq entry.
C1_PartialBundleClosed ==
    (Published /\ Cardinality(Failed) < N) =>
        /\ NonNone = ServiceSet \ Failed
        /\ Cardinality(NonNone) = N - Cardinality(Failed)
        /\ lpc = "done" => \A s \in ServiceSet :
                              closeCalls[s] = IF s \in NonNone \ {"groq"} THEN 1 ELSE 0

C1_Witness ==
    /\ lpc = "done"
    /\ exitKind = "normal"
    /\ Failed = {"github"}
    /\ NonNone = {"jira", "jenkins", "groq"}
    /\ ClosedOnce = {"jira", "jenkins"}

\* C2: the teardown step (the finally block) never runs a second time, and
\* when the manager has exited - after a normal exit of the serving scope,
\* after an exception in it, and after partially failed construction - it
\* has run exactly once.
C2_TeardownExactlyOnce ==
    /\ teardowns <= 1
    /\ lpc \in {"closing", "done"} <=> teardowns = 1

C2_Witness ==
    /\ lpc = "done"
    /\ exitKind = "exception"
    /\ Failed # {}
    /\ NonNone # {}
    /\ teardowns = 1

\* C15 (as claimed): if close() of one client raises during shutdown, close()
\* is still invoked on every other non-None client, every close call has been
\* awaited when the manager exits, and the exit does not raise the failure.
C15_CloseFailureStillClosesEveryNonNone ==
    (lpc = "done" /\ closeErrs # {}) =>
        /\ \A s \in NonNone : closeCalls[s] = 1
        /\ closeTasks = {}
        /\ exitKind \in {"normal", "exception"}

\* C15 (amended): if close() of one client raises during shutdown, close() is
\* still invoked once on every other non-None client among jira, github and
\* jenkins (the groq client is never closed), every close call has been
\* awaited when the manager exits, and the exit does not raise the failure.
C15_CloseFailureTolerated ==
    /\ lpc = "closing" =>
           \A s \in CloseTasksOf(bundle) : s \in closeTasks \/ closeCalls[s] = 1
    /\ (lpc = "done" /\ closeErrs # {}) =>
           /\ \A s \in NonNone \ {"groq"} : closeCalls[s] = 1
           /\ closeCalls["groq"] = 0
           /\ closeTasks = {}
           /\ exitKind \in {"normal", "exception"}

C15_Witness ==
    /\ lpc = "done"
    /\ closeErrs = {"jenkins"}
    /\ NonNone = ServiceSet
    /\ closeCalls["jira"] = 1 /\ closeCalls["github"] = 1

\* The services whose constructor contacts the remote.
ProbingServices == {"jira", "github"}

C27_SlotsFollowOwnConstruction ==
    /\ lpc \in {"start", "gather"} => bundle = [s \in ServiceSet |-> "None"]
    /\ Published =>
           \A s \in ServiceSet :
               /\ results[s] # Pending
               /\ results[s].kind = "client" => results[s].cls = s
               /\ bundle[s] = IF results[s].kind = "client" THEN "client" ELSE "None"

C27_Witness ==
    /\ lpc = "serving"
    /\ results["jira"] = TaskExc("RuntimeError")
    /\ results["github"] = TaskClient("github", "set")
    /\ results["groq"] = TaskExc("AttributeError")
    /\ bundle = [jira |-> "None", github |-> "client", jenkins |-> "client", groq |-> "None"]

\* C23 (as claimed): every client the manager constructed successfully has
\* been closed when the manager has exited, on every exit path, including a
\* cancellation while constructions are in flight or before the bundle is
\* assembled.  Stated for the clients that have a close() and hold an SDK
\* handle.
C23_EveryConstructedClientClosedAtExit ==
    lpc = "done" =>
        \A s \in Closable :
            (results[s].kind = "client" /\ handle[s] = "set") => closeCalls[s] >= 1

---------------------------------------------------------------------------
(* handle_sampling_message (server.py:25-64).  A message is a record:      *)
(* sampling = it is a SamplingMessage instance, enum = its role has a      *)
(* .value attribute.  A response is the content and the finish_reason the  *)
(* code passes to CreateMessageResponse.                                   *)

Msg(sampling, enum, role) == [sampling |-> sampling, enum |-> enum, role |-> role]
MsgLists ==
    { <<Msg(TRUE, TRUE, "system"), Msg(TRUE, TRUE, "user")>>,
      <<Msg(TRUE, TRUE, "user"), Msg(FALSE, TRUE, "user")>>,
      <<Msg(TRUE, TRUE, "system"), Msg(TRUE, FALSE, "user")>> }

\* The finish_reason of a response built without one.
NotGiven == "not given"

OkResponse(text) ==
    [content |-> [prefix |-> "", body |-> text], finish_reason |-> NotGiven]

ErrorResponse_NoFinishReason(e) ==
    [content |-> [prefix |-> "Error generating response: ", body |-> e],
     finish_reason |-> NotGiven]

ErrorResponse(e) ==
    [content |-> [prefix |-> "Error generating response: ", body |-> e],
     finish_reason |-> "error"]

\* The loop building groq_messages: msg.role.value raises AttributeError
\* when the role of a SamplingMessage has no .value.
ConvertMessages(msgs) ==
    LET sm == SelectSeq(msgs, LAMBDA m : m.sampling)
    IN IF \E j \in 1..Len(sm) : ~sm[j].enum THEN Raise("AttributeError")
       ELSE Value([j \in 1..Len(sm) |-> sm[j].role])

\* Lines 36-47, up to the await: "" when the call is reached, else what was raised.
SamplingPrologue(cfg, msgs) ==
    LET c == GroqClientInit(cfg)
    IN IF c.raised THEN [failure |-> "construct", reason |-> c.exc]
       ELSE LET g == ConvertMessages(msgs)
            IN IF g.kind = "raise" THEN [failure |-> "convert", reason |-> g.exc]
               ELSE [failure |-> "", reason |-> ""]

\* Lines 50-64: the completion returns or raises.
SamplingEpilogue(r, text) ==
    LET c == GroqGenerateCompletion(r, text)
    IN IF c.kind = "raise" THEN ErrorResponse(c.exc) ELSE OkResponse(c.val)

\* The whole callback, for a caller that awaits it.
HandleSamplingMessage(cfg, msgs, r, text) ==
    LET p == SamplingPrologue(cfg, msgs)
    IN IF p.failure # "" THEN ErrorResponse(p.reason) ELSE SamplingEpilogue(r, text)

SamplingBegin_SingleFlight(i) ==
    /\ sreq[i].pc = "idle"
    /\ \A j \in 1..MaxReq : sreq[j].pc # "awaiting"
    /\ \E msgs \in MsgLists :
          LET p == SamplingPrologue(config["groq"], msgs)
          IN sreq' = [sreq EXCEPT ![i] =
                 IF p.failure # ""
                 THEN [pc |-> "returned", msgs |-> msgs, failure |-> p.failure,
                       reason |-> p.reason, text |-> "", resp |-> ErrorResponse(p.reason)]
                 ELSE [pc |-> "awaiting", msgs |-> msgs, failure |-> "",
                       reason |-> "", text |-> "", resp |-> OkResponse("")]]
    /\ UNCHANGED <<config, handle, closeCalls, sdkCloses, lastOp, hRes>>
    /\ UNCHANGED lifeVars

\* A request arrives; the callback runs to its await or to its except clause.
SamplingBegin(i) ==
    /\ sreq[i].pc = "idle"
    /\ \E msgs \in MsgLists :
          LET p == SamplingPrologue(config["groq"], msgs)
          IN sreq' = [sreq EXCEPT ![i] =
                 IF p.failure # ""
                 THEN [pc |-> "returned", msgs |-> msgs, failure |-> p.failure,
                       reason |-> p.reason, text |-> "", resp |-> ErrorResponse(p.reason)]
                 ELSE [pc |-> "awaiting", msgs |-> msgs, failure |-> "",
                       reason |-> "", text |-> "", resp |-> OkResponse("")]]
    /\ UNCHANGED <<config, handle, closeCalls, sdkCloses, lastOp, hRes>>
    /\ UNCHANGED lifeVars

\* The provider call of request i returns or raises.
SamplingComplete(i) ==
    /\ sreq[i].pc = "awaiting"
    /\ \E r \in RemoteFor(config["groq"]) \ {RemoteNotFound}, text \in Texts :
          LET c == GroqGenerateCompletion(r, text)
          IN sreq' = [sreq EXCEPT ![i] =
                 [pc |-> "returned", msgs |-> sreq[i].msgs,
                  failure |-> IF c.kind = "raise" THEN "call" ELSE "",
                  reason |-> c.exc,
                  text |-> IF c.kind = "raise" THEN "" ELSE text,
                  resp |-> SamplingEpilogue(r, text)]]
    /\ UNCHANGED <<config, handle, closeCalls, sdkCloses, lastOp, hRes>>
    /\ UNCHANGED lifeVars

InitSampling ==
    /\ InitCommon
    /\ \A s \in ServiceSet \ {"groq"} : config[s] = "absent"

NextSampling ==
    \/ \E i \in 1..MaxReq : SamplingBegin(i)
    \/ \E i \in 1..MaxReq : SamplingComplete(i)

SpecSampling == InitSampling /\ [][NextSampling]_vars

---------------------------------------------------------------------------
(* Properties of the sampling callback (SpecSampling) *)

\* C3: whenever the provider fails - constructing the client, converting
\* the messages, or in the completion call - the callback returns a response
\* with finish_reason "error" whose content contains the failure reason.
C3_FailureBecomesErrorResponse ==
    \A i \in 1..MaxReq :
        /\ sreq[i].pc \in {"idle", "awaiting", "returned"}
        /\ (sreq[i].pc = "returned" /\ sreq[i].failure # "") =>
               /\ sreq[i].resp.finish_reason = "error"
               /\ sreq[i].resp.content.body = sreq[i].reason
               /\ sreq[i].reason # ""

C3_Witness ==
    /\ sreq[1].pc = "returned" /\ sreq[1].failure = "call"
    /\ sreq[2].pc = "returned" /\ sreq[2].failure = "convert"
    /\ sreq[1].resp.finish_reason = "error"

\* C4 (as claimed): a well-formed request served by a provider that succeeds
\* gets finish_reason "stop" and non-empty content equal to the provider's text.
C4_SuccessHasFinishReasonStop ==
    \A i \in 1..MaxReq :
        (sreq[i].pc = "returned" /\ sreq[i].failure = "") =>
            /\ sreq[i].resp.finish_reason = "stop"
            /\ sreq[i].resp.content = [prefix |-> "", body |-> sreq[i].text]
            /\ sreq[i].text # ""

\* C13 (as claimed): when the completion model has no API key, every request
\* receives finish_reason "error" with a message that refers to the missing
\* configuration (not the failure of an attribute access on None), no request
\* is left waiting, later and concurrent requests can still be accepted, and
\* nothing shared between requests has changed.
C13_MissingKeyReportedAsConfiguration ==
    config["groq"] = "absent" =>
        \A i \in 1..MaxReq :
            /\ sreq[i].pc = "idle" => ENABLED SamplingBegin(i)
            /\ sreq[i].pc # "awaiting"
            /\ sreq[i].pc = "returned" =>
                   /\ sreq[i].resp.finish_reason = "error"
                   /\ sreq[i].failure = "construct"
                   /\ sreq[i].resp.content.body # "AttributeError"
            /\ handle = [s \in ServiceSet |-> "unbuilt"]
            /\ hRes = NoHandler

\* C19: sampling requests in flight at the same time are served
\* independently: a request never waits for another (an idle request can
\* always begin and an awaiting one can always complete, whatever the others
\* are doing), the response of a returned request is determined by that
\* request's own failure or provider text, and a step of one request leaves
\* every other request as it was.
C19_SamplingRequestsIndependent ==
    /\ [](\A i \in 1..MaxReq :
            /\ sreq[i].pc = "idle" => ENABLED SamplingBegin(i)
            /\ sreq[i].pc = "awaiting" => ENABLED SamplingComplete(i)
            /\ sreq[i].pc = "returned" =>
                   sreq[i].resp = IF sreq[i].failure # ""
                                  THEN ErrorResponse(sreq[i].reason)
                                  ELSE OkResponse(sreq[i].text))
    /\ [][\A i \in 1..MaxReq, j \in 1..MaxReq :
            (i # j /\ sreq'[i] # sreq[i]) => sreq'[j] = sreq[j]]_vars

C19_Witness ==
    /\ sreq[1].pc = "returned"
    /\ sreq[1].failure = "call"
    /\ sreq[1].resp.finish_reason = "error"
    /\ sreq[2].pc = "awaiting"

\* The provider call of every request returns or raises: the await in
\* handle_sampling_message is resumed.
SpecSamplingFair ==
    SpecSampling /\ \A i \in 1..MaxReq : WF_vars(SamplingComplete(i))

\* C20 (as claimed): provided the provider call returns or raises, every
\* request that is awaiting its completion eventually returns, with exactly
\* one response whose finish_reason is "stop" or "error": none stays awaiting
\* forever and a returned request's response is never replaced by another.
C20_AwaitingEventuallyReturnsOneResponse ==
    /\ \A i \in 1..MaxReq : (sreq[i].pc = "awaiting") ~> (sreq[i].pc = "returned")
    /\ [][\A i \in 1..MaxReq : sreq[i].pc = "returned" => sreq'[i] = sreq[i]]_vars
    /\ [](\A i \in 1..MaxReq :
            sreq[i].pc = "returned" => sreq[i].resp.finish_reason \in {"stop", "error"})

---------------------------------------------------------------------------
(* Resources and tools of server.py.  b is mcp.lifespan_context (the       *)
(* bundle), h the client fields, the r's the remote's answers.  A result   *)
(* is a JSON document or a string; error says whether the document has an  *)
(* "error" key, or the string is one of the handler's error messages.      *)

Task(status, points) == [status |-> status, points |-> points]
TaskLists ==
    { <<>>,
      <<Task("Done", 3), Task("Done", 5), Task("In Progress", 2)>>,
      <<Task("To Do", 0)>> }

Json(error, msg, type, total) ==
    [kind |-> "json", error |-> error, msg |-> msg, type |-> type, total |-> total]
Str(error, msg) ==
    [kind |-> "str", error |-> error, msg |-> msg, type |-> "", total |-> 0]
Escapes(e) ==
    [kind |-> "raise", error |-> TRUE, msg |-> e, type |-> "", total |-> 0]

\* server.py:92-114
GetSprintTasks(b, h, r, tasks) ==
    IF b["jira"] = "None" THEN Json(TRUE, "AttributeError", "", 0)
    ELSE LET res == JiraGetSprintTasks(h["jira"], r, tasks)
         IN IF res.kind = "raise" THEN Json(TRUE, res.exc, "", 0)
            ELSE IF res.kind = "empty" THEN Json(FALSE, "", "tasks", 0)
            ELSE Json(FALSE, "", "tasks", Len(res.val))

\* server.py:121-143; v is what the path is, decodes whether the file's
\* content is valid base64 of valid UTF-8
GetGithubPathContent(b, h, r1, r2, v, decodes) ==
    IF b["github"] = "None"
    THEN Json(TRUE, "Invalid response format from GitHub API", "", 0)
    ELSE LET content == GitHubGetContent(h["github"], r1, r2, v)
         IN IF content.kind = "raise"
            THEN Json(TRUE, "GitHub API error", "", 0)
            ELSE IF content.kind = "none" \/ content.val = "dir"
            THEN Json(TRUE, "Invalid response format from GitHub API", "", 0)
            ELSE IF content.val = "file" /\ ~decodes
            THEN Json(TRUE, "Invalid content encoding", "", 0)
            ELSE Json(FALSE, "", content.val, 0)

\* server.py:116-119: the root of the repository, a directory
GetGithubContent(b, h, r1, r2) == GetGithubPathContent(b, h, r1, r2, "dir", TRUE)

GetBuildStatus_Unguarded(b, h, r) ==
    IF b["jenkins"] = "None" THEN Escapes("AttributeError")
    ELSE LET info == JenkinsGetBuildInfo(h["jenkins"], r)
         IN IF info.kind = "raise" THEN Escapes(info.exc)
            ELSE IF info.kind = "none" THEN Escapes("TypeError")
            ELSE Json(FALSE, "", "build", 0)

\* server.py:145-162
GetBuildStatus(b, h, r) ==
    IF b["jenkins"] = "None" THEN Json(TRUE, "AttributeError", "", 0)
    ELSE LET info == JenkinsGetBuildInfo(h["jenkins"], r)
         IN IF info.kind = "raise" THEN Json(TRUE, info.exc, "", 0)
            ELSE IF info.kind = "none" THEN Json(TRUE, "TypeError", "", 0)
            ELSE Json(FALSE, "", "build", 0)

\* server.py:183-190: the four totals of the report
RECURSIVE SumPoints(_)
SumPoints(tasks) ==
    IF tasks = <<>> THEN 0 ELSE Head(tasks).points + SumPoints(Tail(tasks))

SprintTotals(tasks) ==
    LET done == SelectSeq(tasks, LAMBDA t : t.status = "Done")
    IN [total_tasks |-> Len(tasks),
        completed_tasks |-> Len(done),
        total_points |-> SumPoints(tasks),
        completed_points |-> SumPoints(done)]

\* server.py:197,199: f"{(num/den*100):.1f if den > 0 else 0}".  The
\* division is evaluated first; then the value is formatted with the format
\* specification ".1f if den > 0 else 0", which format() rejects.
FormatPercent(num, den) ==
    IF den = 0 THEN Raise("ZeroDivisionError") ELSE Raise("ValueError")

\* The report string, by the figures it shows (percentages in tenths).
ReportStr(t, pctTasks, pctPoints) ==
    [kind |-> "str", error |-> FALSE, msg |-> "Sprint Report", type |-> "",
     total |-> t.total_tasks,
     report |-> [total_tasks |-> t.total_tasks,
                 completed_tasks |-> t.completed_tasks,
                 completed_tasks_pct |-> pctTasks,
                 total_points |-> t.total_points,
                 completed_points |-> t.completed_points,
                 completed_points_pct |-> pctPoints]]

\* server.py:167-213
GenerateSprintReport(b, h, r, tasks) ==
    LET tasks_data == GetSprintTasks(b, h, r, tasks)
        t == SprintTotals(IF tasks_data.total = 0 THEN <<>> ELSE tasks)
        pctTasks == FormatPercent(t.completed_tasks, t.total_tasks)
        pctPoints == FormatPercent(t.completed_points, t.total_points)
    IN IF tasks_data.error THEN Str(TRUE, "Error generating report")
       ELSE IF pctTasks.kind = "raise"
       THEN IF pctTasks.exc = "ZeroDivisionError"
            THEN Str(TRUE, "Error generating report: ZeroDivisionError")
            ELSE Str(TRUE, "Error generating report: ValueError")
       ELSE IF pctPoints.kind = "raise"
       THEN Str(TRUE, "Error generating report: ValueError")
       ELSE ReportStr(t, pctTasks.val, pctPoints.val)

PredictBurndown_NoTry(b, h, r1, r2, r3, r4, tasks, dateOk) ==
    IF b["jira"] = "None" THEN Escapes("AttributeError")
    ELSE Str(TRUE, "Error predicting burndown")

\* server.py:215-267.  r1 answers get_sprint, r2 the sprint's tasks, r3
\* get_completed_sprints, r4 the tasks of a past sprint; dateOk is whether
\* endDate - datetime.now() can be computed.
PredictBurndown(b, h, r1, r2, r3, r4, tasks, dateOk) ==
    IF b["jira"] = "None" THEN Str(TRUE, "Error predicting burndown")
    ELSE LET current_sprint == JiraGetSprint(h["jira"], r1)
             tasks_data == GetSprintTasks(b, h, r2, tasks)
             past_sprints == JiraGetCompletedSprints(h["jira"], r3)
             sprint_tasks == JiraGetSprintTasks(h["jira"], r4, tasks)
         IN IF current_sprint.kind = "raise" THEN Str(TRUE, "Error predicting burndown")
            ELSE IF tasks_data.error THEN Str(TRUE, "Error predicting burndown")
            ELSE IF past_sprints.kind = "raise" THEN Str(TRUE, "Error predicting burndown")
            ELSE IF past_sprints.kind = "value" /\ sprint_tasks.kind = "raise"
            THEN Str(TRUE, "Error predicting burndown")
            ELSE IF current_sprint.kind = "none" \/ ~dateOk
            THEN Str(TRUE, "Error predicting burndown")
            ELSE Str(FALSE, "Burndown Prediction")

\* server.py:269-322
AssessCodeQuality(b, h, r1, r2, v, decodes) ==
    LET content_data == GetGithubPathContent(b, h, r1, r2, v, decodes)
    IN IF content_data.error THEN Str(TRUE, "Error assessing code quality")
       ELSE IF content_data.type = "file" THEN Str(FALSE, "Code Quality Assessment")
       ELSE Str(TRUE, "Error assessing code quality")   \* len(None): TypeError

\* server.py:324-357
AnalyzeCodeWithGroq(b, h, r1, r2, v, decodes, rg, text) ==
    LET content_data == GetGithubPathContent(b, h, r1, r2, v, decodes)
    IN IF content_data.error THEN Str(TRUE, "Error analyzing code")
       ELSE IF content_data.type # "file"
       THEN Str(FALSE, "Please provide a path to a specific file")
       ELSE IF b["groq"] = "None" THEN Str(TRUE, "Error analyzing code")
       ELSE LET analysis == GroqAnalyzeCode(rg, text)
            IN IF analysis.kind = "raise" THEN Str(TRUE, "Error analyzing code")
               ELSE Str(FALSE, "Code Analysis")

\* server.py:361-399: sampled is whether mcp.sample_from_llm delivers the
\* callback's response or raises.
GenerateAiInsights(cfg, msgs, sampled, r, text) ==
    IF ~sampled THEN Str(TRUE, "Error generating insights")
    ELSE LET response == HandleSamplingMessage(cfg, msgs, r, text)
         IN Str(response.finish_reason = "error", response.content.body)

HandlerRemotes ==
    {RemoteOk, RemoteNotFound, RemoteOutcome("status", 500), RemoteUnreachable}
PathKinds == {"file", "dir", "symlink"}

Served(name, r1, r2, res) == [handler |-> name, r |-> r1, r2 |-> r2, res |-> res]

\* An invocation whose input includes the sprint's issues.
ServedTasks(name, r1, tasks, res) ==
    [handler |-> name, r |-> r1, r2 |-> RemoteOk, res |-> res, tasks |-> tasks]

\* An invocation whose input is a path of kind v in the repository.
ServedPath(name, r1, r2, v, res) ==
    [handler |-> name, r |-> r1, r2 |-> r2, res |-> res, v |-> v]

\* hRes holds the result of the invocation being answered.
Ready_AfterShutdown ==
    /\ lpc \in {"serving", "closing", "done"}
    /\ hRes = NoHandler

Ready ==
    /\ lpc = "serving"
    /\ hRes = NoHandler

handlerFrame_ClearsSlot ==
    /\ UNCHANGED <<config, handle, closeCalls, sdkCloses, lastOp, sreq>>
    /\ UNCHANGED <<lpc, results, teardowns, exitKind, closeTasks, closeErrs>>
    /\ bundle' = [bundle EXCEPT !["jira"] = "None"]

handlerFrame ==
    /\ UNCHANGED <<config, handle, closeCalls, sdkCloses, lastOp, sreq>>
    /\ UNCHANGED lifeVars

ReadSprintTasks ==
    /\ Ready
    /\ \E r \in HandlerRemotes, tasks \in TaskLists :
          hRes' = Served("get_sprint_tasks", r, RemoteOk, GetSprintTasks(bundle, handle, r, tasks))
    /\ handlerFrame

ReadGithubContent ==
    /\ Ready
    /\ \E r1 \in HandlerRemotes, r2 \in HandlerRemotes :
          hRes' = Served("get_github_content", r1, r2, GetGithubContent(bundle, handle, r1, r2))
    /\ handlerFrame

ReadBuildStatus ==
    /\ Ready
    /\ \E r \in HandlerRemotes :
          hRes' = Served("get_build_status", r, RemoteOk, GetBuildStatus(bundle, handle, r))
    /\ handlerFrame

CallGenerateSprintReport ==
    /\ Ready
    /\ \E r \in HandlerRemotes, tasks \in TaskLists :
          hRes' = ServedTasks("generate_sprint_report", r, tasks,
                              GenerateSprintReport(bundle, handle, r, tasks))
    /\ handlerFrame

CallPredictBurndown ==
    /\ Ready
    /\ \E r1 \in HandlerRemotes, r2 \in HandlerRemotes, r3 \in HandlerRemotes,
          r4 \in HandlerRemotes, tasks \in TaskLists, dateOk \in BOOLEAN :
          hRes' = Served("predict_burndown", r1, r2,
                         PredictBurndown(bundle, handle, r1, r2, r3, r4, tasks, dateOk))
    /\ handlerFrame

CallAssessCodeQuality ==
    /\ Ready
    /\ \E r1 \in HandlerRemotes, r2 \in HandlerRemotes, v \in PathKinds, decodes \in BOOLEAN :
          hRes' = ServedPath("assess_code_quality", r1, r2, v,
                             AssessCodeQuality(bundle, handle, r1, r2, v, decodes))
    /\ handlerFrame

CallAnalyzeCodeWithGroq ==
    /\ Ready
    /\ \E r1 \in HandlerRemotes, r2 \in HandlerRemotes, v \in PathKinds, decodes \in BOOLEAN,
          rg \in HandlerRemotes \ {RemoteNotFound}, text \in Texts :
          hRes' = Served("analyze_code_with_groq", r1, r2,
                         AnalyzeCodeWithGroq(bundle, handle, r1, r2, v, decodes, rg, text))
    /\ handlerFrame

CallGenerateAiInsights ==
    /\ Ready
    /\ \E msgs \in MsgLists, sampled \in BOOLEAN,
          r \in HandlerRemotes \ {RemoteNotFound}, text \in Texts :
          hRes' = Served("generate_ai_insights", r, RemoteOk,
                         GenerateAiInsights(config["groq"], msgs, sampled, r, text))
    /\ handlerFrame

\* The result is sent to the peer.
Respond ==
    /\ lpc = "serving"
    /\ hRes # NoHandler
    /\ hRes' = NoHandler
    /\ UNCHANGED <<config, handle, closeCalls, sdkCloses, lastOp, sreq>>
    /\ UNCHANGED lifeVars

\* The states in which the bundle has just been published.
InitHandlers ==
    /\ config \in [ServiceSet -> ConfigKinds]
    /\ \E offload \in [ServiceSet -> OffloadOutcomes] :
          /\ results = [s \in ServiceSet |-> InitTaskResult(s, config[s], offload[s])]
          /\ handle = [s \in ServiceSet |->
                          IF results[s].kind = "client" THEN results[s].client ELSE "raised"]
          /\ bundle = AssignSlots([i \in 1..N |-> results[ServiceNames[i]]])
    /\ closeCalls = [s \in ServiceSet |-> 0]
    /\ sdkCloses = [s \in ServiceSet |-> 0]
    /\ lastOp = NoOp
    /\ lpc = "serving"
    /\ teardowns = 0
    /\ exitKind = "none"
    /\ closeTasks = {}
    /\ closeErrs = {}
    /\ hRes = NoHandler
    /\ sreq = [i \in 1..MaxReq |-> [pc |-> "idle"]]

NextHandlers ==
    \/ ReadSprintTasks
    \/ ReadGithubContent
    \/ ReadBuildStatus
    \/ CallGenerateSprintReport
    \/ CallPredictBurndown
    \/ CallAssessCodeQuality
    \/ CallAnalyzeCodeWithGroq
    \/ CallGenerateAiInsights
    \/ Respond

SpecHandlers == InitHandlers /\ [][NextHandlers]_vars

---------------------------------------------------------------------------
(* Properties of the handlers (SpecHandlers) *)

Tools == {"generate_sprint_report", "predict_burndown", "assess_code_quality",
          "analyze_code_with_groq", "generate_ai_insights"}
Resources == {"get_sprint_tasks", "get_github_content", "get_build_status"}

ServiceOf(handler) ==
    CASE handler = "get_sprint_tasks" -> "jira"
      [] handler = "get_github_content" -> "github"
      [] handler = "get_build_status" -> "jenkins"

SlotNone(s) == bundle[s] = "None"
Disabled(s) == bundle[s] # "None" /\ handle[s] = "none"

\* The upstream call of the last resource read was made and failed.
UpstreamFailed ==
    /\ hRes.handler \in Resources
    /\ bundle[ServiceOf(hRes.handler)] # "None"
    /\ handle[ServiceOf(hRes.handler)] = "set"
    /\ \/ hRes.r # RemoteOk
       \/ hRes.handler = "get_github_content" /\ hRes.r2 # RemoteOk

\* C9: every tool returns a string in every state of the bundle and for
\* every answer of the remotes; no exception escapes.
C9_ToolsReturnStrings ==
    hRes.handler \in Tools => hRes.res.kind = "str"

C9_Witness ==
    /\ hRes.handler = "predict_burndown"
    /\ SlotNone("jira")
    /\ hRes.res = Str(TRUE, "Error predicting burndown")

\* C10 (as claimed): every resource handler returns a JSON document, and
\* the document has an "error" key when the upstream call fails or the
\* needed client is unavailable (its slot is None, or the client is disabled).
C10_UnavailableClientYieldsErrorJson ==
    hRes.handler \in Resources =>
        /\ hRes.res.kind = "json"
        /\ (UpstreamFailed \/ SlotNone(ServiceOf(hRes.handler))
                           \/ Disabled(ServiceOf(hRes.handler))) => hRes.res.error

\* C10 (amended): every resource handler returns a JSON document and never
\* raises; the document has an "error" key when the upstream call fails,
\* when the needed slot is None, and when the GitHub or Jenkins client is
\* disabled; with a disabled Jira client get_sprint_tasks returns the
\* document of an empty sprint, {"total": 0, "tasks": []}, without "error".
C10_ResourcesReturnJson ==
    hRes.handler \in Resources =>
        /\ hRes.res.kind = "json"
        /\ (UpstreamFailed \/ SlotNone(ServiceOf(hRes.handler))) => hRes.res.error
        /\ (Disabled(ServiceOf(hRes.handler)) /\ hRes.handler # "get_sprint_tasks")
               => hRes.res.error
        /\ (Disabled("jira") /\ hRes.handler = "get_sprint_tasks")
               => hRes.res = Json(FALSE, "", "tasks", 0)

C10_Witness ==
    /\ hRes.handler = "get_build_status"
    /\ Disabled("jenkins")
    /\ hRes.res = Json(TRUE, "ConnectionError", "", 0)

\* num/den as a percentage in tenths, rounded to the nearest tenth.
PercentTenths(num, den) == (2000 * num + den) \div (2 * den)

\* C11 (as claimed): for a sprint with at least one task the report shows
\* Total Tasks = number of tasks, Completed Tasks = number of Done tasks with
\* its percentage to one decimal, Total Story Points = sum of all points and
\* Completed Points = sum of the Done tasks' points with its percentage; for
\* (Done 3, Done 5, In Progress 2) it shows 3, 2 (66.7%), 10, 8 (80.0%).
C11_ReportShowsTotals ==
    ( /\ hRes.handler = "generate_sprint_report"
      /\ bundle["jira"] # "None" /\ handle["jira"] = "set"
      /\ hRes.r = RemoteOk
      /\ Len(hRes.tasks) >= 1 )
    => LET t == SprintTotals(hRes.tasks)
       IN /\ ~hRes.res.error
          /\ "report" \in DOMAIN hRes.res
          /\ hRes.res.report.total_tasks = Len(hRes.tasks)
          /\ hRes.res.report.completed_tasks = t.completed_tasks
          /\ hRes.res.report.completed_tasks_pct
                 = PercentTenths(t.completed_tasks, t.total_tasks)
          /\ hRes.res.report.total_points = t.total_points
          /\ hRes.res.report.completed_points = t.completed_points
          /\ t.total_points > 0 =>
                 hRes.res.report.completed_points_pct
                     = PercentTenths(t.completed_points, t.total_points)
          /\ hRes.tasks = <<Task("Done", 3), Task("Done", 5), Task("In Progress", 2)>>
                 => hRes.res.report =
                        [total_tasks |-> 3, completed_tasks |-> 2,
                         completed_tasks_pct |-> 667, total_points |-> 10,
                         completed_points |-> 8, completed_points_pct |-> 800]

\* C22 (as claimed): the report shows each percentage with one decimal place
\* and shows 0.0% when its denominator is zero: no task gives Completed
\* Tasks: 0 (0.0%), story points summing to zero give Completed Points: 0
\* (0.0%), and neither is an error.
C22_ZeroDenominatorShowsZeroPercent ==
    ( /\ hRes.handler = "generate_sprint_report"
      /\ bundle["jira"] # "None" /\ handle["jira"] = "set"
      /\ hRes.r = RemoteOk )
    => LET t == SprintTotals(hRes.tasks)
       IN /\ ~hRes.res.error
          /\ "report" \in DOMAIN hRes.res
          /\ hRes.res.report.completed_tasks_pct =
                 IF t.total_tasks = 0 THEN 0
                 ELSE PercentTenths(t.completed_tasks, t.total_tasks)
          /\ hRes.res.report.completed_points_pct =
                 IF t.total_points = 0 THEN 0
                 ELSE PercentTenths(t.completed_points, t.total_points)

\* C28 (as claimed): when the requested path is a directory - as the root
\* served by the content resource always is - the content handler returns
\* JSON with type "dir" and no error, and assess_code_quality returns a
\* Directory Summary.
C28_DirectoryIsListed ==
    ( /\ hRes.handler \in {"get_github_content", "assess_code_quality"}
      /\ bundle["github"] # "None" /\ handle["github"] = "set"
      /\ hRes.r = RemoteOk /\ hRes.r2 = RemoteOk )
    => /\ hRes.handler = "get_github_content" =>
              hRes.res = Json(FALSE, "", "dir", 0)
       /\ (hRes.handler = "assess_code_quality" /\ hRes.v = "dir") =>
              hRes.res = Str(FALSE, "Directory Summary")

ContentTools == {"assess_code_quality", "analyze_code_with_groq"}

\* The code-host client is configured, the repository exists and the
\* requested path does not.
MissingPath ==
    /\ hRes.handler \in ContentTools
    /\ bundle["github"] # "None" /\ handle["github"] = "set"
    /\ hRes.r = RemoteOk
    /\ hRes.r2 = RemoteNotFound

\* C12: when the code-host client is configured and the repository exists but
\* the path does not, get_content returns None, and assess_code_quality and
\* analyze_code_with_groq return an error-carrying string, raising nothing.
C12_MissingPathYieldsErrorString ==
    MissingPath =>
        /\ \A v \in PathKinds :
              GitHubGetContent(handle["github"], hRes.r, hRes.r2, v) = None
        /\ hRes.res.kind = "str"
        /\ hRes.res.error

C12_Witness ==
    /\ MissingPath
    /\ hRes.handler = "assess_code_quality"
    /\ hRes.res = Str(TRUE, "Error assessing code quality")

---------------------------------------------------------------------------
(* The server as a whole (SpecServer): create_api_clients runs from its     *)
(* start, and while the bundle is published the resources, tools and the    *)
(* prompt are invoked in any order; sampling is requested by                *)
(* generate_ai_insights.                                                    *)

\* server.py:402-449: the prompt embeds the strings of two tools, neither of
\* which raises, and returns three messages.
SprintRetrospectiveGuidance(b, h, r1, r2, tasks) ==
    LET sprint_report == GenerateSprintReport(b, h, r2, tasks)
        burndown_prediction == PredictBurndown(b, h, r1, r2, r1, r2, tasks, TRUE)
    IN [kind |-> "messages", error |-> FALSE, msg |-> sprint_report.msg,
        type |-> burndown_prediction.msg, total |-> 3]

GetSprintRetrospectiveGuidance ==
    /\ Ready
    /\ \E r1 \in HandlerRemotes, r2 \in HandlerRemotes, tasks \in TaskLists :
          hRes' = Served("sprint_retrospective_guidance", r1, r2,
                         SprintRetrospectiveGuidance(bundle, handle, r1, r2, tasks))
    /\ handlerFrame

ServerConfigs == [ServiceSet -> {"absent", "valid"}]

InitServer ==
    /\ InitCommon
    /\ config \in ServerConfigs

NextServer ==
    \/ Next
    \/ NextHandlers
    \/ GetSprintRetrospectiveGuidance

SpecServer == InitServer /\ [][NextServer]_vars

\* C14: once create_api_clients has yielded the bundle, no step - of a
\* resource, tool, prompt or sampling invocation, or of the lifecycle manager
\* - assigns, clears or replaces any slot of the bundle.
C14_BundleNeverChangesAfterPublication ==
    [][Published => bundle' = bundle]_vars

C14_Witness ==
    /\ lpc = "done"
    /\ exitKind = "normal"
    /\ hRes # NoHandler
    /\ hRes.handler = "generate_ai_insights"
    /\ NonNone = {"jira", "groq"}
    /\ bundle = AssignSlots([i \in 1..N |-> results[ServiceNames[i]]])

\* C30: close() is invoked on a client only after the serving scope that
\* received the bundle has exited: while the manager is starting or the
\* bundle is published to handlers no close task exists and no client has
\* been closed, and once the closing has begun no handler invocation starts.
C30_CloseOnlyAfterServing ==
    /\ [](lpc \in {"start", "gather", "serving"} =>
            /\ closeTasks = {}
            /\ \A s \in ServiceSet : closeCalls[s] = 0 /\ sdkCloses[s] = 0)
    /\ [][(lpc \in {"closing", "done"}) => (hRes' = hRes)]_vars

C30_Witness ==
    /\ lpc = "closing"
    /\ exitKind = "normal"
    /\ closeCalls["jenkins"] = 1
    /\ "jira" \in closeTasks
    /\ hRes # NoHandler
    /\ hRes.handler = "get_build_status"

---------------------------------------------------------------------------
(* The sampling callback while the bundle is published (SpecServing): the  *)
(* bundle has just been published and sampling requests arrive.            *)

InitServing ==
    /\ InitHandlers
    /\ \A s \in ServiceSet \ {"groq"} : config[s] = "valid"

SpecServing == InitServing /\ [][NextSampling]_vars

\* The requests whose callback has constructed a GroqClient (server.py:38).
CallbackInstances ==
    {i \in 1..MaxReq : sreq[i].pc # "idle" /\ sreq[i].failure # "construct"}

\* The client instances of service s that exist: the one the init task
\* returned and, for groq, those the callback constructed.
Instances(s) ==
    (IF results[s].kind = "client" THEN 1 ELSE 0)
        + (IF s = "groq" THEN Cardinality(CallbackInstances) ELSE 0)

\* C24 (as claimed): between publication and shutdown no client is
\* constructed again: the sampling callback uses the instance created at
\* startup, and the number of client instances of a service never exceeds one.
C24_NoClientConstructedAfterPublication ==
    lpc = "serving" =>
        /\ \A s \in ServiceSet : Instances(s) <= 1
        /\ CallbackInstances = {}

---------------------------------------------------------------------------
(* Properties of the clients (SpecClient) *)

\* The remote outcome that decides the last operation: get_content asks the
\* remote for the path only after get_repo has found the repository.
Decisive(o) == IF o.op = "get_content" /\ o.r = RemoteOk THEN o.r2 ELSE o.r

QueryOps == UNION {ClientOps(s) : s \in ServiceSet}
NotFoundOps == {"get_repo", "get_content", "get_sprint", "get_job_info", "get_build_info"}

LastOpOnEnabled(ops) ==
    /\ lastOp.op \in ops
    /\ handle[lastOp.svc] = "set"
    /\ config[lastOp.svc] = "valid"

\* C5 (as claimed): for each of the four services, constructing the client
\* from a configuration with a required field absent returns a disabled
\* client (client field None) and does not raise.
C5_AbsentConfigYieldsDisabledClient ==
    (lastOp.op = "init" /\ config[lastOp.svc] = "absent")
        => (lastOp.res.kind # "raise" /\ handle[lastOp.svc] = "none")

\* C6: with valid configuration, when the remote answers the query with
\* 404, get_repo, get_content, get_sprint, get_job_info and get_build_info
\* return None and do not raise.
C6_NotFoundReturnsNone ==
    (LastOpOnEnabled(NotFoundOps) /\ Decisive(lastOp) = RemoteNotFound)
        => lastOp.res = None

C6_Witness ==
    /\ LastOpOnEnabled({"get_sprint"})
    /\ lastOp.r = RemoteNotFound
    /\ lastOp.res = None

C18_FailureIsRaisedWithStatus ==
    (LastOpOnEnabled(QueryOps) /\ Decisive(lastOp) \in RemoteFailures)
        => /\ lastOp.res.kind = "raise"
           /\ lastOp.res.code = Decisive(lastOp).code

SyncSdkOps ==
    {"get_repo", "get_content", "get_sprint_tasks", "get_sprint", "get_completed_sprints"}

\* C21 (as claimed): every operation of a client that wraps a synchronous SDK
\* hands work to the executor exactly once per call and makes one remote
\* attempt, whatever the remote answers.
C21_OneOffloadPerCall ==
    LastOpOnEnabled(SyncSdkOps) =>
        /\ lastOp.offloads = 1
        /\ lastOp.attempts = 1

\* C21 (amended): on an enabled client, get_repo, get_sprint_tasks,
\* get_sprint and get_completed_sprints hand work to the executor exactly
\* once and make one remote attempt, also when it fails; get_content does so
\* once for the repository and a second time for the path exactly when the
\* repository was found.  On a disabled client nothing is handed over.
C21_OffloadsPerCall ==
    lastOp.op \in SyncSdkOps =>
        /\ lastOp.attempts = lastOp.offloads
        /\ lastOp.offloads =
              IF handle[lastOp.svc] # "set" THEN 0
              ELSE IF lastOp.op = "get_content" /\ lastOp.r = RemoteOk THEN 2
              ELSE 1

C21_Witness ==
    /\ LastOpOnEnabled({"get_repo"})
    /\ lastOp.r = RemoteUnreachable
    /\ lastOp.res.kind = "raise"
    /\ lastOp.offloads = 1

PromptedOps == {"analyze_code", "generate_documentation"}

\* C25: analyze_code and generate_documentation each make exactly one
\* completion call; when it returns a text they return exactly that text, and
\* when it fails its failure reaches the caller unchanged.
C25_PromptedOpsReturnCompletion ==
    LastOpOnEnabled(PromptedOps) =>
        /\ lastOp.attempts = 1
        /\ lastOp.r = RemoteOk => lastOp.res = Value(lastOp.v)
        /\ lastOp.r.kind = "status" =>
               lastOp.res = RaiseStatus("groq.APIStatusError", lastOp.r.code)
        /\ lastOp.r = RemoteUnreachable =>
               lastOp.res = Raise(SdkTransportError("groq"))

C25_Witness ==
    /\ LastOpOnEnabled({"analyze_code"})
    /\ lastOp.r = RemoteOutcome("status", 429)
    /\ lastOp.res.kind = "raise"
    /\ lastOp.res.code = 429

\* C26: constructing GitHubClient with a token configured sends exactly one
\* authentication probe (get_user) to the remote, and when the probe
\* succeeds the client is enabled (its handle is set) and nothing is raised.
C26_GitHubInitProbesOnce ==
    (lastOp.op = "init" /\ lastOp.svc = "github" /\ config["github"] # "absent") =>
        /\ lastOp.attempts = 1
        /\ config["github"] = "valid" =>
               /\ handle["github"] = "set"
               /\ lastOp.res = Value("set")

C26_Witness ==
    /\ lastOp.op = "init" /\ lastOp.svc = "github"
    /\ config["github"] = "valid"
    /\ lastOp.attempts = 1
    /\ handle["github"] = "set"

\* What each operation gives on a disabled client.
DisabledResult(op) ==
    CASE op \in {"get_repo", "get_content", "get_sprint"} -> None
      [] op \in {"get_sprint_tasks", "get_completed_sprints"} -> EmptyList
      [] op \in {"get_job_info", "get_build_info"} -> Raise("ConnectionError")

\* C29: on a disabled client (handle none) no operation contacts the remote:
\* get_repo, get_content and get_sprint return None, get_sprint_tasks and
\* get_completed_sprints return an empty list, get_job_info and
\* get_build_info raise ConnectionError, and close() calls nothing on the
\* SDK and raises nothing.
C29_DisabledClientNeverContactsRemote ==
    (lastOp.svc \in Closable /\ handle[lastOp.svc] = "none") =>
        /\ lastOp.op \in ClientOps(lastOp.svc) =>
               /\ lastOp.res = DisabledResult(lastOp.op)
               /\ lastOp.attempts = 0
               /\ lastOp.offloads = 0
        /\ lastOp.op = "close" => lastOp.res = None
        /\ sdkCloses[lastOp.svc] = 0

C29_Witness ==
    /\ lastOp.svc = "jira" /\ lastOp.op = "get_completed_sprints"
    /\ handle["jira"] = "none"
    /\ config["jira"] = "rejected"
    /\ lastOp.r = RemoteUnreachable
    /\ lastOp.res = EmptyList
    /\ closeCalls["jira"] = 1

\* C8 (as claimed): a second close() on the same client raises no error and
\* releases no resource a second time.
C8_SecondCloseReleasesNothing ==
    \A s \in Closable :
        closeCalls[s] >= 2 =>
            /\ sdkCloses[s] <= 1
            /\ (lastOp.op = "close" /\ lastOp.svc = s) => lastOp.res.kind # "raise"

====
